---- MODULE Spec2Model ----
(***************************************************************************)
(* A model of backend/trends_routes.py: the trend endpoint POST / with its *)
(* per-city pipeline (search call, LLM call, extraction of the JSON array, *)
(* decoding, repair of every record) and the fan-out over the cities of a  *)
(* request.                                                                *)
(*                                                                         *)
(* Texts are sequences of one-character strings (or of tokens, for the     *)
(* text an LLM returns); numbers are kept in tenths, sign and magnitude    *)
(* apart, so that -0.0 and 0.0 stay distinct as they do for a float.       *)
(***************************************************************************)
EXTENDS Integers, Sequences, FiniteSets, TLC

VARIABLES
    text,        \* clean_json_response: its argument
    cleaned,     \* clean_json_response: what it returned ("cleaned", line 112)
    trend,       \* the repair loop's loop variable: one element of "parsed"
    repaired,    \* that element after the loop body, or the exception it raised
    request,     \* get_trends: the TrendsRequest being served
    mainpc,      \* get_trends: where the handler stands
    pc,          \* process_city: where each city's coroutine stands
    results,     \* what each city's coroutine returned
    response,    \* get_trends: the list under "trends" in its return value
    response_text, \* history: the text each city's LLM call returned
    failed_at,   \* history: the step at which each city's pipeline raised
    log,         \* history: the pipeline steps each city went through, in order
    settled,     \* history: the cities' indices in the order their coroutines returned
    calls,       \* history: upstream calls (search, LLM) made for the current request
    prev         \* history: the previous request served, and its response

vars == <<text, cleaned, trend, repaired, request, mainpc, pc, results, response,
          response_text, failed_at, log, settled, calls, prev>>

extractVars == <<text, cleaned>>
repairVars == <<trend, repaired>>
routeVars == <<request, mainpc, pc, results, response, response_text, failed_at,
               log, settled, calls, prev>>

-----------------------------------------------------------------------------
(* Bounds of the model.                                                    *)

\* Longest LLM text (in tokens) given to clean_json_response.
MaxLen == 5
\* Longest change_pct text (in characters).
MaxTxt == 4
\* Most cities in one request.
MaxCities == 2
\* Most cities in one request when two requests are served one after the other.
RepeatCities == 1

-----------------------------------------------------------------------------
(* Sequences.                                                              *)

SeqsUpTo(S, n) == UNION {[1..k -> S] : k \in 0..n}

Min(S) == CHOOSE x \in S : \A y \in S : x <= y

Max(S) == CHOOSE x \in S : \A y \in S : x >= y

RECURSIVE Flatten(_)
Flatten(ss) == IF ss = <<>> THEN <<>> ELSE Head(ss) \o Flatten(Tail(ss))

-----------------------------------------------------------------------------
(* JSON values as Python holds them.  A value is [t, s, n]: its type, its  *)
(* text (a str's characters, a list's items, "-" for a negative number)    *)
(* and its magnitude (an int's, or a float's in tenths).  A dict is a      *)
(* function from its keys to values.                                       *)

Str(s) == [t |-> "str", s |-> s, n |-> 0]

List(items) == [t |-> "list", s |-> items, n |-> 0]

Null == [t |-> "null", s |-> <<>>, n |-> 0]

\* The signed value of a number (a float's in tenths).
NumVal(v) == IF v.s = <<"-">> THEN 0 - v.n ELSE v.n

EmptyDict == [k \in {} |-> Null]

\* d[k] = v
DictSet(d, k, v) == [x \in (DOMAIN d) \cup {k} |-> IF x = k THEN v ELSE d[x]]

\* One element of a decoded array: a dict, or something else.
DictElem(d) == [kind |-> "dict", d |-> d, s |-> <<>>]

OtherElem(kind, s) == [kind |-> kind, d |-> EmptyDict, s |-> s]

-----------------------------------------------------------------------------
(* The text of an LLM response, in tokens: the brackets and the comma of   *)
(* JSON, a scalar ("1"), a string literal ("s"), whole object literals     *)
(* ("o1", "o2", "o3") and a word of prose ("p").                           *)

\* o1: a record as the prompt asks for it.
Obj1 ==
    [k \in {"city", "trend", "popularity", "change_pct", "features",
            "competitors", "local_hotspots", "tips"} |->
        CASE k = "city" -> Str(<<"Mumbai">>)
          [] k = "trend" -> Str(<<"Denim">>)
          [] k = "popularity" -> Str(<<"Medium">>)
          [] k = "change_pct" -> Str(<<"4", "5", ".", "2", "%">>)
          [] OTHER -> List(<<"a", "b">>)]

\* o2: a record with a trend name and nothing else.
Obj2 == [k \in {"trend"} |-> Str(<<"Linen">>)]

\* o3: a record whose change_pct holds no number and whose tips is no list.
Obj3 ==
    [k \in {"city", "trend", "change_pct", "tips"} |->
        CASE k = "city" -> Str(<<"Pune">>)
          [] k = "trend" -> Str(<<"Khadi">>)
          [] k = "change_pct" -> Str(<<"u", "p">>)
          [] OTHER -> Str(<<"t">>)]

ObjToks == {"o1", "o2", "o3"}

ScalarToks == {"1", "s"}

Tokens == {"[", "]", ",", "p"} \cup ScalarToks \cup ObjToks

ValOf(tok) ==
    CASE tok = "o1" -> DictElem(Obj1)
      [] tok = "o2" -> DictElem(Obj2)
      [] tok = "o3" -> DictElem(Obj3)
      [] tok = "1" -> OtherElem("int", <<>>)
      [] OTHER -> OtherElem("str", <<"s">>)

-----------------------------------------------------------------------------
(* clean_json_response: re.search(r"\[.*\]", text, re.DOTALL).  The search *)
(* takes the leftmost "[" that has a "]" after it, and ".*" then runs to   *)
(* the last "]" of the text.                                               *)

Opens(s) == {i \in 1..Len(s) : s[i] = "["}

Closes(s) == {j \in 1..Len(s) : s[j] = "]"}

MatchStarts(s) == {i \in Opens(s) : \E j \in Closes(s) : i < j}

\* clean_json_response with a lazy ".*?": to the first "]" after the "[".
clean_json_response_lazy(s) ==
    IF MatchStarts(s) # {}
    THEN LET i == Min(MatchStarts(s))
             j == Min({k \in Closes(s) : i < k})
         IN SubSeq(s, i, j)
    ELSE <<"[", "]">>

clean_json_response(s) ==
    IF MatchStarts(s) # {}
    THEN LET i == Min(MatchStarts(s))
             j == Max({k \in Closes(s) : i < k})
         IN SubSeq(s, i, j)
    ELSE <<"[", "]">>

-----------------------------------------------------------------------------
(* json.loads on a token text.  A JSON value is a scalar, an object or an  *)
(* array "[" "]" | "[" value ("," value)* "]"; anything else raises.       *)

ParseFail == [ok |-> FALSE, v |-> OtherElem("none", <<>>), items |-> <<>>, next |-> 0]

ParseOk(v, items, next) == [ok |-> TRUE, v |-> v, items |-> items, next |-> next]

RECURSIVE ParseValue(_, _), ParseItems(_, _, _)
ParseValue(s, i) ==
    IF i > Len(s) THEN ParseFail
    ELSE IF s[i] \in ScalarToks \cup ObjToks THEN ParseOk(ValOf(s[i]), <<>>, i + 1)
    ELSE IF s[i] = "["
         THEN IF i + 1 <= Len(s) /\ s[i + 1] = "]"
              THEN ParseOk(OtherElem("list", <<>>), <<>>, i + 2)
              ELSE ParseItems(s, i + 1, <<>>)
    ELSE ParseFail

ParseItems(s, i, acc) ==
    LET r == ParseValue(s, i) IN
    IF ~r.ok THEN ParseFail
    ELSE LET acc2 == Append(acc, r.v) IN
         IF r.next > Len(s) THEN ParseFail
         ELSE IF s[r.next] = "," THEN ParseItems(s, r.next + 1, acc2)
         ELSE IF s[r.next] = "]"
              THEN ParseOk(OtherElem("list", <<>>), acc2, r.next + 1)
         ELSE ParseFail

\* json.loads(s): [ok, items] for an array; a text that is no JSON raises.
json_loads(s) ==
    LET r == ParseValue(s, 1) IN
    IF r.ok /\ r.next = Len(s) + 1 THEN r ELSE ParseFail

\* s is the text of a JSON array.
IsJsonArray(s) == Len(s) > 0 /\ s[1] = "[" /\ json_loads(s).ok

-----------------------------------------------------------------------------
(* Numbers in text.                                                        *)

DigitChars == <<"0", "1", "2", "3", "4", "5", "6", "7", "8", "9">>

Digits == {DigitChars[i] : i \in 1..10}

Signs == {"-", "+"}

DigitOf(c) == (CHOOSE i \in 1..10 : DigitChars[i] = c) - 1

RECURSIVE DigitsVal(_)
DigitsVal(ds) ==
    IF ds = <<>> THEN 0
    ELSE 10 * DigitsVal(SubSeq(ds, 1, Len(ds) - 1)) + DigitOf(ds[Len(ds)])

RECURSIVE ToDigits(_)
ToDigits(n) ==
    IF n < 10 THEN <<DigitChars[n + 1]>>
    ELSE ToDigits(n \div 10) \o <<DigitChars[(n % 10) + 1]>>

RECURSIVE Pow10(_)
Pow10(k) == IF k = 0 THEN 1 ELSE 10 * Pow10(k - 1)

\* A float's text, as str() and an f-string give it: "45.2", "-5.0".
FormatFloat(neg, m) ==
    (IF neg THEN <<"-">> ELSE <<>>) \o ToDigits(m \div 10) \o <<".">> \o ToDigits(m % 10)

\* str(value), for the values a JSON document decodes to.
PyStr(v) ==
    CASE v.t = "str" -> v.s
      [] v.t = "float" -> FormatFloat(v.s = <<"-">>, v.n)
      [] v.t = "int" -> (IF v.s = <<"-">> THEN <<"-">> ELSE <<>>) \o ToDigits(v.n)
      [] v.t = "list" -> <<"[">> \o v.s \o <<"]">>
      [] OTHER -> <<"N", "o", "n", "e">>

(* re.search(r"([-+]?\d+(\.\d+)?)", s): the leftmost place where a digit,  *)
(* or a sign with a digit after it, stands; from there the sign, the whole *)
(* run of digits and, when a "." with a digit follows, the "." and the     *)
(* whole run of digits after it.                                           *)

NumStarts(s) ==
    {i \in 1..Len(s) :
        \/ s[i] \in Digits
        \/ s[i] \in Signs /\ i < Len(s) /\ s[i + 1] \in Digits}

\* The last index of the run of digits that starts at i.
DigitRunEnd(s, i) == Max({j \in i..Len(s) : \A k \in i..j : s[k] \in Digits})

NoMatch == [found |-> FALSE, neg |-> FALSE, int |-> <<>>, frac |-> <<>>]

re_search_number(s) ==
    IF NumStarts(s) = {} THEN NoMatch
    ELSE LET i == Min(NumStarts(s))
             d0 == IF s[i] \in Signs THEN i + 1 ELSE i
             e0 == DigitRunEnd(s, d0)
             hasFrac == e0 + 2 <= Len(s) /\ s[e0 + 1] = "." /\ s[e0 + 2] \in Digits
         IN [found |-> TRUE,
             neg |-> s[i] = "-",
             int |-> SubSeq(s, d0, e0),
             frac |-> IF hasFrac THEN SubSeq(s, e0 + 2, DigitRunEnd(s, e0 + 2)) ELSE <<>>]

\* round1 with the digits past the first decimal place cut off.
round1_truncating(m, up) ==
    LET k == Len(m.frac)
    IN [neg |-> m.neg,
        m |-> 10 * DigitsVal(m.int)
              + (IF k = 0 THEN 0 ELSE DigitsVal(m.frac) \div Pow10(k - 1))]

(* round(float(m), 1), in tenths.  A value halfway between two tenths goes *)
(* where its binary float lies, above or below the decimal text: up says   *)
(* which.                                                                  *)
round1(m, up) ==
    LET k == Len(m.frac)
        whole == DigitsVal(m.int)
    IN IF k = 0 THEN [neg |-> m.neg, m |-> 10 * whole]
       ELSE LET scale == Pow10(k - 1)
                q == 10 * whole + DigitsVal(m.frac) \div scale
                r == DigitsVal(m.frac) % scale
            IN [neg |-> m.neg,
                m |-> IF 2 * r > scale \/ (2 * r = scale /\ up) THEN q + 1 ELSE q]

-----------------------------------------------------------------------------
(* The repair of one record: the body of the loop over "parsed".           *)

Float(neg, m) == [t |-> "float", s |-> IF neg THEN <<"-">> ELSE <<>>, n |-> m]

IntV(n) == [t |-> "int", s |-> <<>>, n |-> n]

\* The class list itself, the default of trend.get(key, list).
ListClass == [t |-> "type", s |-> <<"list">>, n |-> 0]

DictGet(d, k, default) == IF k \in DOMAIN d THEN d[k] ELSE default

\* The bounds of random.uniform, in tenths.
RandLo == 30
RandHi == 650

\* The bucket thresholds, in tenths, and the scores.
HighPct == 350
MediumPct == 150
HighScore == 85
MediumScore == 55
LowScore == 20

LabelHigh == <<"High">>
LabelMedium == <<"Medium">>
LabelLow == <<"Low">>

\* assign_random_metrics with ">" for ">=".
assign_random_metrics_strict(draw) ==
    IF draw > HighPct THEN [neg |-> FALSE, m |-> draw, label |-> LabelHigh, score |-> HighScore]
    ELSE IF draw > MediumPct
         THEN [neg |-> FALSE, m |-> draw, label |-> LabelMedium, score |-> MediumScore]
    ELSE [neg |-> FALSE, m |-> draw, label |-> LabelLow, score |-> LowScore]

\* assign_random_metrics(), draw being round(random.uniform(3.0, 65.0), 1).
assign_random_metrics(draw) ==
    IF draw >= HighPct THEN [neg |-> FALSE, m |-> draw, label |-> LabelHigh, score |-> HighScore]
    ELSE IF draw >= MediumPct
         THEN [neg |-> FALSE, m |-> draw, label |-> LabelMedium, score |-> MediumScore]
    ELSE [neg |-> FALSE, m |-> draw, label |-> LabelLow, score |-> LowScore]

\* Lines 116-123: pct, None when no number is found.
resolve_pct(d, up) ==
    IF "change_pct" \in DOMAIN d
    THEN LET pct_val == re_search_number(PyStr(d["change_pct"]))
         IN IF pct_val.found
            THEN [some |-> TRUE] @@ round1(pct_val, up)
            ELSE [some |-> FALSE, neg |-> FALSE, m |-> 0]
    ELSE [some |-> FALSE, neg |-> FALSE, m |-> 0]

\* Lines 128-136: the bucket of a resolved percentage.
bucket_resolved(p) ==
    LET pct == IF p.neg THEN 0 - p.m ELSE p.m IN
    IF pct >= HighPct THEN [neg |-> p.neg, m |-> p.m, label |-> LabelHigh, score |-> HighScore]
    ELSE IF pct >= MediumPct
         THEN [neg |-> p.neg, m |-> p.m, label |-> LabelMedium, score |-> MediumScore]
    ELSE [neg |-> p.neg, m |-> p.m, label |-> LabelLow, score |-> LowScore]

\* overwrite_fields with popularity set to the label whatever the record held.
overwrite_fields_label(d, b) ==
    LET d1 == DictSet(d, "pct_change", Float(b.neg, b.m))
        d2 == DictSet(d1, "change_pct", Str(FormatFloat(b.neg, b.m) \o <<"%">>))
        d3 == DictSet(d2, "popularity_score", IntV(b.score))
    IN DictSet(d3, "popularity", Str(b.label))

\* Lines 138-141.
overwrite_fields(d, b) ==
    LET d1 == DictSet(d, "pct_change", Float(b.neg, b.m))
        d2 == DictSet(d1, "change_pct", Str(FormatFloat(b.neg, b.m) \o <<"%">>))
        d3 == DictSet(d2, "popularity_score", IntV(b.score))
    IN DictSet(d3, "popularity", DictGet(d3, "popularity", Str(b.label)))

ListKeys == <<"features", "competitors", "local_hotspots", "tips">>

\* default_list that fills in a missing key and leaves a value that is no list.
default_list_absent_only(d, key) ==
    IF key \notin DOMAIN d THEN DictSet(d, key, List(<<>>)) ELSE d

\* Lines 144-145, for one key.
default_list(d, key) ==
    IF key \notin DOMAIN d \/ d[key].t # "list"
    THEN DictSet(d, key,
                 IF DictGet(d, key, ListClass).t = "list"
                 THEN DictGet(d, key, List(<<>>))
                 ELSE List(<<>>))
    ELSE d

RECURSIVE default_lists(_, _)
default_lists(d, i) ==
    IF i > Len(ListKeys) THEN d ELSE default_lists(default_list(d, ListKeys[i]), i + 1)

Idle == [st |-> "idle", d |-> EmptyDict, drew |-> FALSE, err |-> <<>>]

Raised(msg) == [st |-> "raise", d |-> EmptyDict, drew |-> FALSE, err |-> msg]

(* The loop body on one element e.  An int, float, bool or None raises at  *)
(* line 117 ("in" on something not iterable).  A str or a list gets past   *)
(* lines 117-123 (the bare except swallows the AttributeError of .get),    *)
(* has its metrics drawn, and raises at line 138 (item assignment).        *)
repair_elem(e, draw, up) ==
    IF e.kind = "dict"
    THEN LET p == resolve_pct(e.d, up)
             b == IF p.some THEN bucket_resolved(p) ELSE assign_random_metrics(draw)
         IN [st |-> "ok", d |-> default_lists(overwrite_fields(e.d, b), 1),
             drew |-> ~p.some, err |-> <<>>]
    ELSE IF e.kind \in {"str", "list"} THEN Raised(<<"TypeError: item assignment">>)
    ELSE Raised(<<"TypeError: not iterable">>)

-----------------------------------------------------------------------------
(* Extraction on its own: every text up to MaxLen tokens, cleaned once.    *)

NotYet == <<"?">>

InitExtract ==
    /\ text \in SeqsUpTo(Tokens \ {"o2", "o3", "s"}, MaxLen)
    /\ cleaned = NotYet
    /\ trend = OtherElem("none", <<>>)
    /\ repaired = Idle
    /\ request = [cities |-> <<>>, category |-> "none"]
    /\ mainpc = "idle"
    /\ pc = <<>>
    /\ results = <<>>
    /\ response = <<>>
    /\ response_text = <<>>
    /\ failed_at = <<>>
    /\ log = <<>>
    /\ settled = <<>>
    /\ calls = [search |-> 0, llm |-> 0]
    /\ prev = [served |-> FALSE, ok |-> FALSE, cities |-> <<>>, category |-> "none",
               trends |-> <<>>]

Clean ==
    /\ cleaned = NotYet
    /\ cleaned' = clean_json_response(text)
    /\ UNCHANGED <<text, repairVars, routeVars>>

NextExtract == Clean

SpecExtract == InitExtract /\ [][NextExtract]_vars


-----------------------------------------------------------------------------
(* The repair on its own: one element of a decoded array, repaired once.   *)

Absent == [t |-> "absent", s |-> <<>>, n |-> 0]

AllKeys == {"city", "trend", "popularity", "change_pct", "pct_change",
            "popularity_score", "features", "competitors", "local_hotspots", "tips"}

\* The dict that holds all[k] under every key k that all does not leave out.
MkDict(all) == [k \in {x \in DOMAIN all : all[x].t # "absent"} |-> all[k]]

PctChars == {"-", "+", ".", "%", "0", "1", "5", "9"}

Pct452 == Str(<<"4", "5", ".", "2", "%">>)

\* Records with nothing but a change_pct: every text up to MaxTxt characters.
PctRecords ==
    {DictElem(MkDict([k \in {"change_pct"} |-> Str(t)])) : t \in SeqsUpTo(PctChars, MaxTxt)}

ListChoices == {Absent, List(<<"a">>), Str(<<"x">>)}

PopularityChoices == {Absent, Str(LabelLow), Null, IntV(3)}

\* Records whose change_pct holds a number, every other key present or not.
KeyRecords ==
    {DictElem(MkDict([k \in AllKeys |->
        CASE k = "city" -> c
          [] k = "trend" -> t
          [] k = "popularity" -> p
          [] k = "change_pct" -> cp
          [] k = "pct_change" -> IF given THEN Str(<<"j">>) ELSE Absent
          [] k = "popularity_score" -> IF given THEN IntV(1) ELSE Absent
          [] k = "features" -> f1
          [] k = "competitors" -> f2
          [] k = "local_hotspots" -> f3
          [] OTHER -> f4])) :
        c \in {Absent, Str(<<"Mumbai">>)}, t \in {Absent, Str(<<"Denim">>)},
        p \in PopularityChoices, given \in BOOLEAN,
        cp \in {Pct452, Float(FALSE, HighPct), Str(<<"-", "5">>)},
        f1 \in ListChoices, f2 \in ListChoices, f3 \in ListChoices, f4 \in ListChoices}

\* Records whose change_pct is missing or holds no number.
FallbackRecords ==
    {DictElem(MkDict([k \in {"popularity", "change_pct", "tips"} |->
        CASE k = "popularity" -> p [] k = "change_pct" -> cp [] OTHER -> f])) :
        p \in PopularityChoices, cp \in {Absent, Null, Str(<<"u", "p">>), List(<<>>)},
        f \in ListChoices}

\* Elements that are no JSON object.
NonDicts ==
    {OtherElem("int", <<>>), OtherElem("float", <<>>), OtherElem("bool", <<>>),
     OtherElem("null", <<>>), OtherElem("str", <<"s">>), OtherElem("list", <<>>)}

InitRepair ==
    /\ trend \in PctRecords \cup KeyRecords \cup FallbackRecords \cup NonDicts
    /\ repaired = Idle
    /\ text = <<>>
    /\ cleaned = NotYet
    /\ request = [cities |-> <<>>, category |-> "none"]
    /\ mainpc = "idle"
    /\ pc = <<>>
    /\ results = <<>>
    /\ response = <<>>
    /\ response_text = <<>>
    /\ failed_at = <<>>
    /\ log = <<>>
    /\ settled = <<>>
    /\ calls = [search |-> 0, llm |-> 0]
    /\ prev = [served |-> FALSE, ok |-> FALSE, cities |-> <<>>, category |-> "none",
               trends |-> <<>>]

\* Line 125, pct is not None: lines 127-145 with the number found.
RepairResolved ==
    /\ repaired = Idle
    /\ trend.kind = "dict"
    /\ \E up \in BOOLEAN :
        /\ resolve_pct(trend.d, up).some
        /\ repaired' = repair_elem(trend, RandLo, up)
    /\ UNCHANGED <<trend, extractVars, routeVars>>

\* Line 125, pct is None: line 126 draws the metrics, then lines 138-145.
RepairFallback ==
    /\ repaired = Idle
    /\ \/ trend.kind = "dict" /\ ~resolve_pct(trend.d, FALSE).some
       \/ trend.kind \in {"str", "list"}
    /\ \E draw \in RandLo..RandHi : repaired' = repair_elem(trend, draw, FALSE)
    /\ UNCHANGED <<trend, extractVars, routeVars>>

\* Line 117 raises: the element is not a container.
RepairRaises ==
    /\ repaired = Idle
    /\ trend.kind \notin {"dict", "str", "list"}
    /\ repaired' = repair_elem(trend, RandLo, FALSE)
    /\ UNCHANGED <<trend, extractVars, routeVars>>

NextRepair == RepairResolved \/ RepairFallback \/ RepairRaises

SpecRepair == InitRepair /\ [][NextRepair]_vars


-----------------------------------------------------------------------------
(* process_city and get_trends.  A request has one coroutine per city, at  *)
(* "new" until the event loop first runs it, at "search" while its search  *)
(* call is in a worker thread, at "llm" while its LLM call is, and "done"  *)
(* once it has returned.  Everything process_city does between two awaits  *)
(* is one step of the event loop.                                          *)

CityNames == {"Mumbai", "Delhi"}

Categories == {"streetwear", "ethnic"}

\* The texts an LLM call returns here: prose only, an empty array, a record
\* in prose, two records, one sparse record, a record and a number, a stray
\* word inside the array, two arrays, a string, a nested array, "] [".
LlmTexts ==
    {<<"p">>,
     <<"[", "]">>,
     <<"p", "[", "o1", "]", "p">>,
     <<"[", "o1", ",", "o2", "]">>,
     <<"[", "o2", "]">>,
     <<"[", "o3", ",", "1", "]">>,
     <<"[", "o1", "p", "]">>,
     <<"[", "o1", "]", "[", "o2", "]">>,
     <<"[", "s", "]">>,
     <<"[", "[", "]", "]">>,
     <<"]", "[">>}

\* The fallback percentages drawn here: the ends of the range and the two
\* thresholds.
RandSamples == {RandLo, MediumPct, HighPct, RandHi}

\* Line 149: [{"city": city, "error": str(e)}]
error_record(city, msg) ==
    [k \in {"city", "error"} |-> IF k = "city" THEN Str(<<city>>) ELSE Str(msg)]

\* Lines 115-145: the loop over parsed, from element i on.  An exception
\* leaves the loop; what was repaired before it is not returned.
RECURSIVE repair_all(_, _, _, _)
repair_all(items, draws, ups, i) ==
    IF i > Len(items) THEN [ok |-> TRUE, out |-> <<>>, err |-> <<>>]
    ELSE LET r == repair_elem(items[i], draws[i], ups[i]) IN
         IF r.st = "raise" THEN [ok |-> FALSE, out |-> <<>>, err |-> r.err]
         ELSE LET rest == repair_all(items, draws, ups, i + 1) IN
              IF rest.ok THEN [ok |-> TRUE, out |-> <<r.d>> \o rest.out, err |-> <<>>]
              ELSE rest

\* normalize that hands back the records repaired before the exception,
\* with the error record after them.
RECURSIVE repaired_prefix(_, _, _, _)
repaired_prefix(items, draws, ups, i) ==
    IF i > Len(items) THEN <<>>
    ELSE LET r == repair_elem(items[i], draws[i], ups[i]) IN
         IF r.st = "raise" THEN <<>>
         ELSE <<r.d>> \o repaired_prefix(items, draws, ups, i + 1)

normalize_keeps_prefix(city, t, draws, ups) ==
    LET parsed == json_loads(clean_json_response(t)) IN
    IF ~parsed.ok
    THEN [failed |-> "json", out |-> <<error_record(city, <<"JSONDecodeError">>)>>]
    ELSE LET r == repair_all(parsed.items, draws, ups, 1) IN
         IF r.ok THEN [failed |-> "none", out |-> r.out]
         ELSE [failed |-> "repair",
               out |-> repaired_prefix(parsed.items, draws, ups, 1)
                       \o <<error_record(city, r.err)>>]

\* Lines 112-149: what process_city returns once the LLM has returned t.
normalize(city, t, draws, ups) ==
    LET parsed == json_loads(clean_json_response(t)) IN
    IF ~parsed.ok
    THEN [failed |-> "json", out |-> <<error_record(city, <<"JSONDecodeError">>)>>]
    ELSE LET r == repair_all(parsed.items, draws, ups, 1) IN
         IF r.ok THEN [failed |-> "none", out |-> r.out]
         ELSE [failed |-> "repair", out |-> <<error_record(city, r.err)>>]

\* How many elements the array in t holds (0 when t decodes to none).
ItemCount(t) == Len(json_loads(clean_json_response(t)).items)

\* What process_city can return for each city and each text of the LLM:
\* one outcome for every way the fallbacks are drawn and the ties rounded.
Outcomes ==
    [c \in CityNames |-> [t \in LlmTexts |->
        {normalize(c, t, draws, ups) :
            draws \in [1..ItemCount(t) -> RandSamples],
            ups \in [1..ItemCount(t) -> BOOLEAN]}]]

\* asyncio.wait(FIRST_COMPLETED) in place of gather: one coroutine is enough.
any_settled(pcs) == pcs = <<>> \/ \E i \in 1..Len(pcs) : pcs[i] = "done"

\* Line 157: gather returns once every coroutine has returned.
all_settled(pcs) == \A i \in 1..Len(pcs) : pcs[i] = "done"

\* gather in the order the coroutines finished (asyncio.as_completed).
gather_as_completed(res, order) == [k \in 1..Len(order) |-> res[order[k]]]

\* Line 157: gather's list, in the order of its arguments.
gather(res, order) == res

\* all_trends with the first record of each city only.
all_trends_first(city_lists) ==
    Flatten([i \in 1..Len(city_lists) |->
                IF city_lists[i] = <<>> THEN <<>> ELSE <<city_lists[i][1]>>])

\* Line 158: [trend for city_trends in results for trend in city_trends]
all_trends(city_lists) == Flatten(city_lists)

NoPrev ==
    [served |-> FALSE, ok |-> FALSE, cities |-> <<>>, category |-> "none", trends |-> <<>>]

InitRoute ==
    /\ request = [cities |-> <<>>, category |-> "none"]
    /\ mainpc = "idle"
    /\ pc = <<>>
    /\ results = <<>>
    /\ response = <<>>
    /\ response_text = <<>>
    /\ failed_at = <<>>
    /\ log = <<>>
    /\ settled = <<>>
    /\ calls = [search |-> 0, llm |-> 0]
    /\ prev = NoPrev
    /\ text = <<>>
    /\ cleaned = NotYet
    /\ trend = OtherElem("none", <<>>)
    /\ repaired = Idle

\* Lines 155-157: a request arrives; one coroutine per city is handed to
\* gather.
Receive(n) ==
    /\ mainpc = "idle"
    /\ \E cs \in SeqsUpTo(CityNames, n), cat \in Categories :
        /\ request' = [cities |-> cs, category |-> cat]
        /\ pc' = [i \in 1..Len(cs) |-> "new"]
        /\ results' = [i \in 1..Len(cs) |-> <<>>]
        /\ response_text' = [i \in 1..Len(cs) |-> NotYet]
        /\ failed_at' = [i \in 1..Len(cs) |-> "none"]
        /\ log' = [i \in 1..Len(cs) |-> <<>>]
    /\ mainpc' = "gather"
    /\ response' = <<>>
    /\ settled' = <<>>
    /\ calls' = [search |-> 0, llm |-> 0]
    /\ UNCHANGED <<prev, extractVars, repairVars>>

\* Line 100: the coroutine of city i runs up to its first await; the search
\* call goes to a worker thread.
StartTask ==
    \E i \in 1..Len(pc) :
        /\ mainpc = "gather"
        /\ pc[i] = "new"
        /\ pc' = [pc EXCEPT ![i] = "search"]
        /\ log' = [log EXCEPT ![i] = Append(@, "search_start")]
        /\ calls' = [calls EXCEPT !.search = @ + 1]
        /\ UNCHANGED <<request, mainpc, results, response, response_text, failed_at,
                       settled, prev, extractVars, repairVars>>

\* The coroutine of city i returns the error record for an exception
\* raised at step.
Fail(i, step, msg) ==
    /\ pc' = [pc EXCEPT ![i] = "done"]
    /\ results' = [results EXCEPT ![i] = <<error_record(request.cities[i], msg)>>]
    /\ failed_at' = [failed_at EXCEPT ![i] = step]
    /\ settled' = Append(settled, i)

\* Lines 81-83 raise in the worker thread (network, quota): line 100
\* re-raises, line 149 returns.
SearchRaises ==
    \E i \in 1..Len(pc) :
        /\ mainpc = "gather"
        /\ pc[i] = "search"
        /\ Fail(i, "search", <<"search failed">>)
        /\ log' = [log EXCEPT ![i] = Append(@, "search_raise")]
        /\ UNCHANGED <<request, mainpc, response, response_text, calls, prev,
                       extractVars, repairVars>>

\* The search returns, and line 101 raises on a result that is no dict.
SearchMalformed ==
    \E i \in 1..Len(pc) :
        /\ mainpc = "gather"
        /\ pc[i] = "search"
        /\ Fail(i, "snippets", <<"AttributeError">>)
        /\ log' = [log EXCEPT ![i] = Append(@, "search_end")]
        /\ UNCHANGED <<request, mainpc, response, response_text, calls, prev,
                       extractVars, repairVars>>

\* Lines 100-111: the search returns; the snippets are joined and the LLM
\* call goes to a worker thread.
SearchReturns ==
    \E i \in 1..Len(pc) :
        /\ mainpc = "gather"
        /\ pc[i] = "search"
        /\ pc' = [pc EXCEPT ![i] = "llm"]
        /\ log' = [log EXCEPT ![i] = @ \o <<"search_end", "llm_start">>]
        /\ calls' = [calls EXCEPT !.llm = @ + 1]
        /\ UNCHANGED <<request, mainpc, results, response, response_text, failed_at,
                       settled, prev, extractVars, repairVars>>

\* Lines 104-109 raise in the worker thread: line 111 re-raises, line 149
\* returns.
LlmRaises ==
    \E i \in 1..Len(pc) :
        /\ mainpc = "gather"
        /\ pc[i] = "llm"
        /\ Fail(i, "llm", <<"llm failed">>)
        /\ log' = [log EXCEPT ![i] = Append(@, "llm_raise")]
        /\ UNCHANGED <<request, mainpc, response, response_text, calls, prev,
                       extractVars, repairVars>>

\* Lines 111-149: the LLM returns t; the array is extracted, decoded and
\* repaired, the coroutine returns.
LlmReturns ==
    \E i \in 1..Len(pc) :
        /\ mainpc = "gather"
        /\ pc[i] = "llm"
        /\ \E t \in LlmTexts :
            \E r \in Outcomes[request.cities[i]][t] :
                /\ results' = [results EXCEPT ![i] = r.out]
                /\ failed_at' = [failed_at EXCEPT ![i] = r.failed]
                /\ response_text' = [response_text EXCEPT ![i] = t]
        /\ pc' = [pc EXCEPT ![i] = "done"]
        /\ settled' = Append(settled, i)
        /\ log' = [log EXCEPT ![i] = @ \o <<"llm_end", "normalize">>]
        /\ UNCHANGED <<request, mainpc, response, calls, prev, extractVars, repairVars>>

\* Lines 157-159: gather returns, the lists are flattened, the handler
\* returns {"trends": all_trends}.
Respond ==
    /\ mainpc = "gather"
    /\ all_settled(pc)
    /\ response' = all_trends(gather(results, settled))
    /\ mainpc' = "responded"
    /\ UNCHANGED <<request, pc, results, response_text, failed_at, log, settled,
                   calls, prev, extractVars, repairVars>>

Next ==
    \/ Receive(MaxCities)
    \/ StartTask
    \/ SearchRaises
    \/ SearchMalformed
    \/ SearchReturns
    \/ LlmRaises
    \/ LlmReturns
    \/ Respond

Spec == InitRoute /\ [][Next]_vars

(* Two requests in a row.  The handler keeps nothing between requests:   *)
(* the module has no state but the API keys, the model, the prompt and the *)
(* router.  prev remembers the first request and its response.             *)

\* Lines 154-155: the first response has gone out and the router calls
\* get_trends for the next request.
ServeNext ==
    /\ mainpc = "responded"
    /\ ~prev.served
    /\ prev' = [served |-> TRUE,
                ok |-> \A i \in 1..Len(failed_at) : failed_at[i] = "none",
                cities |-> request.cities,
                category |-> request.category,
                trends |-> response]
    /\ mainpc' = "idle"
    /\ request' = [cities |-> <<>>, category |-> "none"]
    /\ pc' = <<>>
    /\ results' = <<>>
    /\ response' = <<>>
    /\ response_text' = <<>>
    /\ failed_at' = <<>>
    /\ log' = <<>>
    /\ settled' = <<>>
    /\ calls' = [search |-> 0, llm |-> 0]
    /\ UNCHANGED <<extractVars, repairVars>>

NextRepeat ==
    \/ Receive(RepeatCities)
    \/ StartTask
    \/ SearchRaises
    \/ SearchMalformed
    \/ SearchReturns
    \/ LlmRaises
    \/ LlmReturns
    \/ Respond
    \/ ServeNext

SpecRepeat == InitRoute /\ [][NextRepeat]_vars

-----------------------------------------------------------------------------
(* What the claims about the repair speak of, said without the code's own  *)
(* steps.                                                                  *)

Range(f) == {f[x] : x \in DOMAIN f}

Abs(x) == IF x < 0 THEN 0 - x ELSE x

\* m is a signed decimal number: a sign or none, digits, and at most one
\* "." with digits on both sides.
IsNumberText(m) ==
    /\ Len(m) > 0
    /\ LET body == IF m[1] \in Signs THEN Tail(m) ELSE m
           dots == {i \in 1..Len(body) : body[i] = "."}
       IN /\ Len(body) > 0
          /\ Cardinality(dots) <= 1
          /\ \A i \in 1..Len(body) : i \in dots \/ body[i] \in Digits
          /\ \A i \in dots : 1 < i /\ i < Len(body)

ContainsNumber(s) == \E i \in 1..Len(s) : \E j \in i..Len(s) : IsNumberText(SubSeq(s, i, j))

\* The first number of s: it starts where the leftmost number starts and
\* is the longest number that starts there.
FirstNumberText(s) ==
    LET i == Min({a \in 1..Len(s) : \E j \in a..Len(s) : IsNumberText(SubSeq(s, a, j))})
        j == Max({b \in i..Len(s) : IsNumberText(SubSeq(s, i, b))})
    IN SubSeq(s, i, j)

\* The digits of a number text, its "." and sign left out.
DigitsOnly(m) == SelectSeq(m, LAMBDA c : c \in Digits)

\* How many digits stand after the "." of a number text.
FracLen(m) ==
    LET dots == {i \in 1..Len(m) : m[i] = "."}
    IN IF dots = {} THEN 0 ELSE Len(m) - Min(dots)

\* tenths (signed) is the number text m rounded to one decimal place.
IsRoundedTo1(tenths, m) ==
    LET k == FracLen(m)
        n == DigitsVal(DigitsOnly(m))
        signed == IF m[1] = "-" THEN 0 - n ELSE n
    IN 2 * Abs(tenths * Pow10(k) - 10 * signed) <= Pow10(k)

\* The set of the four list fields.
ListFields == Range(ListKeys)

\* C2 as stated: a record returned through the normal path has city, trend
\* and popularity as strings, change_pct a string ending in "%", pct_change
\* a number, popularity_score an integer and the four list fields lists.
C2_AllFieldsPresentAndTyped ==
    repaired.st = "ok" =>
        LET d == repaired.d IN
        /\ {"city", "trend", "popularity", "change_pct", "pct_change",
            "popularity_score"} \cup ListFields \subseteq DOMAIN d
        /\ \A k \in {"city", "trend", "popularity", "change_pct"} : d[k].t = "str"
        /\ d["change_pct"].s # <<>>
        /\ d["change_pct"].s[Len(d["change_pct"].s)] = "%"
        /\ d["pct_change"].t = "float"
        /\ d["popularity_score"].t = "int"
        /\ \A k \in ListFields : d[k].t = "list"

\* C2 as amended: a record returned through the normal path has change_pct
\* a string ending in "%", pct_change a number, popularity_score an integer,
\* popularity present (a string when the LLM's record held none) and each of
\* the four list fields a list, the LLM's own list or else the empty list;
\* city and trend are there exactly when the LLM's record held them, and are
\* what it held.
C2_RepairedFieldsTyped ==
    repaired.st = "ok" =>
        LET d == repaired.d
            o == trend.d
        IN
        /\ {"popularity", "change_pct", "pct_change", "popularity_score"}
               \cup ListFields \subseteq DOMAIN d
        /\ d["change_pct"].t = "str"
        /\ d["change_pct"].s # <<>>
        /\ d["change_pct"].s[Len(d["change_pct"].s)] = "%"
        /\ d["pct_change"].t = "float"
        /\ d["popularity_score"].t = "int"
        /\ "popularity" \notin DOMAIN o => d["popularity"].t = "str"
        /\ \A k \in ListFields :
            IF k \in DOMAIN o /\ o[k].t = "list" THEN d[k] = o[k] ELSE d[k] = List(<<>>)
        /\ \A k \in {"city", "trend"} :
            /\ k \in DOMAIN d <=> k \in DOMAIN o
            /\ k \in DOMAIN o => d[k] = o[k]

\* C2's case: a record without city or features and with a tips that is no
\* list has been repaired.
C2_Witness ==
    /\ repaired.st = "ok"
    /\ "city" \notin DOMAIN trend.d
    /\ "features" \notin DOMAIN trend.d
    /\ "tips" \in DOMAIN trend.d
    /\ trend.d["tips"].t = "str"
    /\ repaired.d["tips"] = List(<<>>)
    /\ repaired.d["features"] = List(<<>>)

\* C5: a repaired record's popularity_score is 85 when pct_change >= 35.0,
\* 55 when 15.0 <= pct_change < 35.0 and 20 below 15.0, whether the
\* percentage was found or drawn; a record that had neither change_pct nor
\* popularity ends with (High, 85), (Medium, 55) or (Low, 20).
C5_Bucketing ==
    repaired.st = "ok" =>
        LET d == repaired.d
            p == NumVal(d["pct_change"])
        IN
        /\ p >= 350 => d["popularity_score"] = IntV(85)
        /\ p >= 150 /\ p < 350 => d["popularity_score"] = IntV(55)
        /\ p < 150 => d["popularity_score"] = IntV(20)
        /\ "change_pct" \notin DOMAIN trend.d /\ "popularity" \notin DOMAIN trend.d =>
            <<d["popularity"], d["popularity_score"]>> \in
                {<<Str(<<"High">>), IntV(85)>>, <<Str(<<"Medium">>), IntV(55)>>,
                 <<Str(<<"Low">>), IntV(20)>>}

\* C5's case: a record with neither change_pct nor popularity drew exactly
\* 35.0 as its fallback.
C5_Witness ==
    /\ repaired.st = "ok"
    /\ repaired.drew
    /\ "change_pct" \notin DOMAIN trend.d
    /\ "popularity" \notin DOMAIN trend.d
    /\ NumVal(repaired.d["pct_change"]) = 350
    /\ repaired.d["popularity_score"] = IntV(85)

\* C7: the repair replaces pct_change by a number, change_pct by that number
\* followed by "%" and popularity_score by the bucket's score, whatever the
\* record held; popularity stays what the record held when the key was
\* there and is the bucket's label otherwise; city and trend stay as they
\* were.  change_pct "45.2%" without popularity gives 45.2, "45.2%", 85, High.
C7_OverwritePolicy ==
    repaired.st = "ok" =>
        LET d == repaired.d
            o == trend.d
            p == NumVal(d["pct_change"])
            cp == d["change_pct"].s
            body == SubSeq(cp, 1, Len(cp) - 1)
        IN
        /\ d["pct_change"].t = "float"
        /\ d["change_pct"].t = "str"
        /\ cp # <<>> /\ cp[Len(cp)] = "%"
        /\ IsNumberText(body)
        /\ FracLen(body) = 1
        /\ DigitsVal(DigitsOnly(body)) = d["pct_change"].n
        /\ body[1] = "-" <=> d["pct_change"].s = <<"-">>
        /\ d["popularity_score"] =
               IntV(IF p >= 350 THEN 85 ELSE IF p >= 150 THEN 55 ELSE 20)
        /\ IF "popularity" \in DOMAIN o
           THEN d["popularity"] = o["popularity"]
           ELSE d["popularity"] =
                    Str(IF p >= 350 THEN <<"High">>
                        ELSE IF p >= 150 THEN <<"Medium">> ELSE <<"Low">>)
        /\ \A k \in {"city", "trend"} :
            /\ k \in DOMAIN d <=> k \in DOMAIN o
            /\ k \in DOMAIN o => d[k] = o[k]
        /\ "change_pct" \in DOMAIN o /\ o["change_pct"] = Pct452
               /\ "popularity" \notin DOMAIN o =>
            /\ d["pct_change"] = Float(FALSE, 452)
            /\ d["change_pct"] = Pct452
            /\ d["popularity_score"] = IntV(85)
            /\ d["popularity"] = Str(<<"High">>)

\* C7's case: a record that came with popularity Low, its own pct_change and
\* popularity_score and change_pct "45.2%" has been repaired.
C7_Witness ==
    /\ repaired.st = "ok"
    /\ {"popularity", "pct_change", "popularity_score", "change_pct", "city"}
           \subseteq DOMAIN trend.d
    /\ trend.d["change_pct"] = Pct452
    /\ trend.d["popularity"] = Str(<<"Low">>)
    /\ trend.d["popularity_score"] = IntV(1)
    /\ repaired.d["popularity"] = Str(<<"Low">>)
    /\ repaired.d["popularity_score"] = IntV(85)
    /\ repaired.d["pct_change"] = Float(FALSE, 452)

\* C8: when the text of change_pct contains a number, pct_change is the
\* first signed decimal number of that text rounded to one decimal place and
\* nothing is drawn; when change_pct is missing or its text has no number,
\* pct_change is a drawn value in [3.0, 65.0]; either way the record is
\* repaired and nothing is raised.
C8_PercentageResolution ==
    repaired.st # "idle" /\ trend.kind = "dict" =>
        /\ repaired.st = "ok"
        /\ repaired.d["pct_change"].t = "float"
        /\ IF "change_pct" \in DOMAIN trend.d
              /\ ContainsNumber(PyStr(trend.d["change_pct"]))
           THEN /\ ~repaired.drew
                /\ IsRoundedTo1(NumVal(repaired.d["pct_change"]),
                                FirstNumberText(PyStr(trend.d["change_pct"])))
           ELSE /\ repaired.drew
                /\ NumVal(repaired.d["pct_change"]) >= 30
                /\ NumVal(repaired.d["pct_change"]) <= 650

\* C8's case: change_pct "-.59" has been resolved: its first number is 59.
C8_Witness ==
    /\ repaired.st = "ok"
    /\ "change_pct" \in DOMAIN trend.d
    /\ trend.d["change_pct"] = Str(<<"-", ".", "5", "9">>)
    /\ repaired.d["pct_change"] = Float(FALSE, 590)
    /\ ~repaired.drew


-----------------------------------------------------------------------------
(* What the claim about extraction speaks of.                              *)

\* The ways to cut text s into prose, the text of a JSON array, and prose.
ArrayCuts(s) ==
    {c \in (1..Len(s)) \X (1..Len(s)) :
        c[1] <= c[2] /\ IsJsonArray(SubSeq(s, c[1], c[2]))}

\* C4 as stated: whenever the text holds a JSON array with any prose before
\* and after it, clean_json_response returns exactly the array's text.
C4_ExtractsExactlyTheArray ==
    cleaned # NotYet =>
        \A c \in ArrayCuts(text) : cleaned = SubSeq(text, c[1], c[2])

\* C4 as amended: whenever the text holds a JSON array, with no "[" in the
\* prose before it and no "]" in the prose after it, clean_json_response
\* returns exactly the array's text.
C4_ExtractsArrayBetweenProse ==
    cleaned # NotYet =>
        \A c \in ArrayCuts(text) :
            /\ \A i \in 1..(c[1] - 1) : text[i] # "["
            /\ \A j \in (c[2] + 1)..Len(text) : text[j] # "]"
            => cleaned = SubSeq(text, c[1], c[2])

\* C4's case: an array with prose on both sides, a "]" before it and a "["
\* after it, has been extracted.
C4_Witness ==
    /\ text = <<"]", "[", "1", "]", "[">>
    /\ cleaned = <<"[", "1", "]">>


-----------------------------------------------------------------------------
(* What the claims about a request speak of.                               *)

N == Len(request.cities)

\* How many records the cities before city i returned.
RECURSIVE Offset(_)
Offset(i) == IF i <= 1 THEN 0 ELSE Offset(i - 1) + Len(results[i - 1])

\* What city i put into the response: the records of the response that
\* stand where the records of city i belong.
Contribution(i) == SubSeq(response, Offset(i) + 1, Offset(i) + Len(results[i]))

\* The text has a "[" with a "]" somewhere after it.
HasArraySpan(t) == \E a \in 1..Len(t) : \E b \in a..Len(t) : t[a] = "[" /\ t[b] = "]"

\* The pipeline of city i raised: its search call or its LLM call did, or
\* the text of the LLM holds brackets around something that is no JSON
\* array, or an element of the array is no JSON object.
PipelineFailed(i) ==
    \/ response_text[i] = NotYet
    \/ LET span == clean_json_response(response_text[i]) IN
       \/ ~IsJsonArray(span)
       \/ \E k \in 1..ItemCount(response_text[i]) : json_loads(span).items[k].kind # "dict"

\* The steps a pipeline goes through, from its start to its end, by the
\* step at which it raised.
RunOf(step) ==
    CASE step = "search" -> <<"search_start", "search_raise">>
      [] step = "snippets" -> <<"search_start", "search_end">>
      [] step = "llm" -> <<"search_start", "search_end", "llm_start", "llm_raise">>
      [] OTHER -> <<"search_start", "search_end", "llm_start", "llm_end", "normalize">>

IsPrefix(a, b) == Len(a) <= Len(b) /\ a = SubSeq(b, 1, Len(a))

\* C1: once a request has been served without a failure, a request for the
\* same set of cities and the same category makes no search call and no LLM
\* call and is answered with the identical trend list.
C1_CacheIdempotence ==
    /\ prev.served
    /\ prev.ok
    /\ mainpc # "idle"
    /\ Range(prev.cities) = Range(request.cities)
    /\ prev.category = request.category
    => /\ calls = [search |-> 0, llm |-> 0]
       /\ mainpc = "responded" => response = prev.trends

\* C3: whichever cities fail and at whichever step, the response holds for
\* each failing city exactly one record {city, error} naming it, and for
\* every other city exactly what its own LLM text is repaired to.
C3_FailureIsolation ==
    mainpc = "responded" =>
        /\ Len(results) = N
        /\ Len(response) = Offset(N + 1)
        /\ \A i \in 1..N :
            /\ PipelineFailed(i) <=> failed_at[i] # "none"
            /\ IF PipelineFailed(i)
               THEN /\ Len(Contribution(i)) = 1
                    /\ DOMAIN Contribution(i)[1] = {"city", "error"}
                    /\ Contribution(i)[1]["city"] = Str(<<request.cities[i]>>)
                    /\ Contribution(i)[1]["error"].t = "str"
               ELSE /\ Len(Contribution(i)) = ItemCount(response_text[i])
                    /\ \A k \in 1..Len(Contribution(i)) :
                        "error" \notin DOMAIN Contribution(i)[k]
                    /\ \E o \in Outcomes[request.cities[i]][response_text[i]] :
                        Contribution(i) = o.out

\* C3's case: the first city's array held a record and then a number, the
\* second city's two records; the response has come out as one error record
\* and two records.
C3_Witness ==
    /\ mainpc = "responded"
    /\ N = 2
    /\ failed_at = <<"repair", "none">>
    /\ response_text[1] = <<"[", "o3", ",", "1", "]">>
    /\ Len(results[2]) = 2
    /\ Len(response) = 3
    /\ DOMAIN response[1] = {"city", "error"}

\* C6: the trends list is flat, and its length is the sum over the cities of
\* 1 for a failing city, 0 for a city whose LLM text held no array or an
\* empty one, and else the number of records its pipeline returned.
C6_FlatLength ==
    mainpc = "responded" =>
        /\ Len(response) = Offset(N + 1)
        /\ \A k \in 1..Len(response) : DOMAIN response[k] \subseteq AllKeys \cup {"error"}
        /\ \A i \in 1..N :
            /\ failed_at[i] # "none" => Len(results[i]) = 1
            /\ response_text[i] # NotYet
               /\ (~HasArraySpan(response_text[i])
                   \/ clean_json_response(response_text[i]) = <<"[", "]">>)
               => Len(results[i]) = 0
            /\ failed_at[i] = "none" => Len(results[i]) = ItemCount(response_text[i])

\* C6's case: one city's LLM answered in prose only, the other city's search
\* failed; the response holds one record.
C6_Witness ==
    /\ mainpc = "responded"
    /\ N = 2
    /\ response_text[1] = <<"p">>
    /\ failed_at = <<"none", "search">>
    /\ Len(response) = 1

\* C9: a request with N cities has N pipelines; the response is produced
\* only when every one of them has returned; each pipeline runs its own
\* steps in order (search, then LLM, then normalization) up to its own end,
\* whatever its siblings did.
C9_FanOutBarrier ==
    /\ mainpc # "idle" =>
        /\ Len(pc) = N
        /\ \A i \in 1..N : IsPrefix(log[i], RunOf(failed_at[i]))
        /\ \A i \in 1..N : pc[i] = "done" <=> log[i] = RunOf(failed_at[i])
    /\ mainpc = "responded" =>
        \A i \in 1..N :
            /\ pc[i] = "done"
            /\ log[i] = RunOf(failed_at[i])
            /\ failed_at[i] \in {"none", "json", "repair"} => response_text[i] # NotYet

\* C9's case: the second city's search failed first, the first city's
\* pipeline went on to its end, and the response has been produced.
C9_Witness ==
    /\ mainpc = "responded"
    /\ N = 2
    /\ settled = <<2, 1>>
    /\ failed_at = <<"none", "search">>
    /\ log[1] = <<"search_start", "search_end", "llm_start", "llm_end", "normalize">>

\* C10: however the pipelines interleave, the trends list is the lists of
\* the cities one after the other in the order of the request, and each
\* city's records stand in the order of the LLM's array.
C10_RequestOrder ==
    mainpc = "responded" =>
        /\ Len(response) = Offset(N + 1)
        /\ \A i \in 1..N : \A k \in 1..Len(results[i]) :
            response[Offset(i) + k] = results[i][k]
        /\ \A i \in 1..N :
            failed_at[i] = "none" =>
                LET items == json_loads(clean_json_response(response_text[i])).items IN
                /\ Len(results[i]) = Len(items)
                /\ \A k \in 1..Len(items) : results[i][k]["trend"] = items[k].d["trend"]

\* C10's case: the same city twice, the second pipeline finishing first with
\* one record, the first with two; the response holds the first's two
\* records and then the second's one.
C10_Witness ==
    /\ mainpc = "responded"
    /\ request.cities = <<"Mumbai", "Mumbai">>
    /\ settled = <<2, 1>>
    /\ response_text = << <<"[", "o1", ",", "o2", "]">>, <<"[", "o2", "]">> >>
    /\ Len(response) = 3
    /\ response[1]["trend"] = Str(<<"Denim">>)
    /\ response[2]["trend"] = Str(<<"Linen">>)
    /\ response[3]["trend"] = Str(<<"Linen">>)

====
